---------------------------- MODULE Spec2Model ----------------------------
(***************************************************************************)
(* A model of wordlrs (piedoom/wordlrs): the guess evaluation of           *)
(* process_game_events_system, the HistoryResource aggregate, and the      *)
(* GameState machine driven by the bevy systems of src/lib.rs, src/ui.rs   *)
(* and src/assets.rs.                                                      *)
(*                                                                         *)
(* A char is a one-letter string, a word a sequence of chars, a Guess a    *)
(* sequence of <<char, GuessState>> pairs and a HashMap a function whose   *)
(* DOMAIN is its key set.                                                  *)
(***************************************************************************)
EXTENDS Integers, Sequences, FiniteSets, TLC

VARIABLES
    evWord,        \* evaluator harness: the secret word handed to the evaluation
    evGuess,       \* evaluator harness: the submitted guess
    evLetters,     \* evaluator harness: the `letters` pool left by the evaluation
    evResult,      \* evaluator harness: the Vec<(char, GuessState)> built, or NotRun
    eqLeft,        \* equality harness: the GameState on the left of ==
    eqRight,       \* equality harness: the GameState on the right of ==
    eqResult,      \* equality harness: what == returned, or "not run"
    shWord,        \* share harness: the word handed to share_string
    shSettings,    \* share harness: the Settings handed to share_string
    shTexts,       \* share harness: the Strings the calls returned, in order
    guesses,       \* HistoryResource.guesses
    guessed_char,  \* HistoryResource.guessed_char
    stack,         \* State<GameState>: the state stack, its last entry is current()
    scheduled,     \* State<GameState>: the scheduled operation, or NoOperation
    current,       \* CurrentInputResource: the typed chars
    events,        \* Events<GameEvent>: the Guess events sent and not yet read
    menu_settings, \* MenuSettingsResource
    ranProcess,    \* process_game_events_system has run in this frame
    lastRun,       \* what that run did: the guesses it recorded and dropped
    races,         \* the frames so far that had both a Settings click and a guess
    clicked,       \* the button a ui system saw clicked in this frame, or "none"
    panicked       \* an unwrap() on None has aborted the program

evalVars == <<evWord, evGuess, evLetters, evResult>>
eqVars == <<eqLeft, eqRight, eqResult>>
shareVars == <<shWord, shSettings, shTexts>>
historyVars == <<guesses, guessed_char>>
gameVars == <<stack, scheduled, current, events, menu_settings, ranProcess,
              lastRun, races, clicked, panicked>>
vars == <<evWord, evGuess, evLetters, evResult, eqLeft, eqRight, eqResult,
          shWord, shSettings, shTexts,
          guesses, guessed_char,
          stack, scheduled, current, events, menu_settings, ranProcess,
          lastRun, races, clicked, panicked>>

---------------------------------------------------------------------------
(* Bounds of the harnesses.                                                *)

\* longest word the evaluator harness draws
MaxLen == 4
\* most guesses the history harness records before it must clear
MaxHist == 2
\* most frames in which the Settings click comes before a submitted guess
MaxRaces == 1
\* share harness: calls of share_string on one history
MaxShares == 2

\* the letters the evaluator harness draws words from
EvalChars == {"A", "B", "C"}
\* the letters and the lengths the history harness draws guesses from
HistChars == {"x", "y"}
HistGuessLens == {1, 2}

---------------------------------------------------------------------------
(* GuessState (src/lib.rs:229-235) and small helpers.                      *)

GuessStates == {"None", "Missing", "Misplaced", "Correct"}

Range(s) == {s[i] : i \in DOMAIN s}

Min(a, b) == IF a <= b THEN a ELSE b

\* the marker the evaluation writes over a consumed slot of `letters`
Blank == " "

NotRun == <<"not run">>

---------------------------------------------------------------------------
(* The guess evaluation of process_game_events_system (src/lib.rs:310-348) *)

\* first index of letters holding c: Iterator::position
Position(letters, c) ==
    CHOOSE p \in DOMAIN letters :
        /\ letters[p] = c
        /\ \A q \in DOMAIN letters : letters[q] = c => p <= q

\* first .map(): zip the guess with the word; an equal pair is Correct and
\* blanks slot i of letters, any other pair is left None for the second pass
FirstPassMissingBlank(word, guess) ==
    LET n == Min(Len(guess), Len(word))
    IN  [ pairs   |-> [i \in 1..n |->
                         <<guess[i], IF guess[i] = word[i] THEN "Correct" ELSE "None">>],
          letters |-> word ]

FirstPassByMembership(word, guess) ==
    LET n == Min(Len(guess), Len(word))
    IN  [ pairs   |-> [i \in 1..n |->
                         <<guess[i], IF guess[i] \in Range(word) THEN "Correct" ELSE "None">>],
          letters |-> [i \in 1..Len(word) |->
                         IF i <= n /\ guess[i] \in Range(word) THEN Blank ELSE word[i]] ]

FirstPass(word, guess) ==
    LET n == Min(Len(guess), Len(word))
    IN  [ pairs   |-> [i \in 1..n |->
                         <<guess[i], IF guess[i] = word[i] THEN "Correct" ELSE "None">>],
          letters |-> [i \in 1..Len(word) |->
                         IF i <= n /\ guess[i] = word[i] THEN Blank ELSE word[i]] ]

\* one element of the second .map(): a None pair becomes Misplaced when its
\* char is still in letters (the first such slot is blanked) and Missing
\* otherwise; a Correct pair is kept
SecondStepKeepPool(pair, letters) ==
    IF pair[2] = "None"
    THEN IF pair[1] \in Range(letters)
         THEN [ pair |-> <<pair[1], "Misplaced">>, letters |-> letters ]
         ELSE [ pair |-> <<pair[1], "Missing">>, letters |-> letters ]
    ELSE [ pair |-> pair, letters |-> letters ]

SecondStepAlwaysMissing(pair, letters) ==
    IF pair[2] = "None"
    THEN [ pair |-> <<pair[1], "Missing">>, letters |-> letters ]
    ELSE [ pair |-> pair, letters |-> letters ]

SecondStep(pair, letters) ==
    IF pair[2] = "None"
    THEN IF pair[1] \in Range(letters)
         THEN [ pair    |-> <<pair[1], "Misplaced">>,
                letters |-> [letters EXCEPT ![Position(letters, pair[1])] = Blank] ]
         ELSE [ pair |-> <<pair[1], "Missing">>, letters |-> letters ]
    ELSE [ pair |-> pair, letters |-> letters ]

\* second .map(): left to right over the collected pairs
RECURSIVE SecondPass(_, _, _)
SecondPass(pairs, letters, done) ==
    IF Len(done) = Len(pairs)
    THEN [ pairs |-> done, letters |-> letters ]
    ELSE LET r == SecondStep(pairs[Len(done) + 1], letters)
         IN  SecondPass(pairs, r.letters, Append(done, r.pair))

\* the Vec<(char, GuessState)> built for a guess, with the pool it leaves
EvaluateGuess(word, guess) ==
    LET first == FirstPass(word, guess)
    IN  SecondPass(first.pairs, first.letters, <<>>)

\* Guess::correct (src/lib.rs:224-226)
CorrectAny(guess) == \E i \in DOMAIN guess : guess[i][2] = "Correct"

Correct(guess) == ~ \E i \in DOMAIN guess : guess[i][2] # "Correct"

---------------------------------------------------------------------------
(* HistoryResource (src/lib.rs:132-211)                                    *)

EmptyMap == [c \in {} |-> "None"]

InsertNothing(map, ch, state) == map

Insert(map, ch, state) ==
    [c \in DOMAIN map \cup {ch} |-> IF c = ch THEN state ELSE map[c]]

\* the closure of HistoryResource::guess for one (ch, guess_state)
RatchetOverwrite(map, pair) == Insert(map, pair[1], pair[2])

RatchetCorrectOnly(map, pair) ==
    IF pair[1] \in DOMAIN map /\ map[pair[1]] # "None" /\ pair[2] # "Correct"
    THEN map
    ELSE Insert(map, pair[1], pair[2])

Ratchet(map, pair) ==
    LET ch == pair[1]
        guess_state == pair[2]
    IN  IF ch \in DOMAIN map
        THEN CASE map[ch] = "None" -> Insert(map, ch, guess_state)
               [] map[ch] = "Missing" ->
                    IF guess_state = "Misplaced" \/ guess_state = "Correct"
                    THEN Insert(map, ch, guess_state)
                    ELSE map
               [] map[ch] = "Misplaced" ->
                    IF guess_state = "Correct"
                    THEN Insert(map, ch, guess_state)
                    ELSE map
               [] map[ch] = "Correct" -> map
        ELSE Insert(map, ch, guess_state)

\* for_each over the guess's pairs, in order
RECURSIVE FoldGuess(_, _, _)
FoldGuess(map, guess, i) ==
    IF i > Len(guess)
    THEN map
    ELSE FoldGuess(Ratchet(map, guess[i]), guess, i + 1)

\* HistoryResource::guess
HistoryGuessPrepend(h, guess) ==
    [ guesses      |-> <<guess>> \o h.guesses,
      guessed_char |-> FoldGuess(h.guessed_char, guess, 1) ]

HistoryGuess(h, guess) ==
    [ guesses      |-> Append(h.guesses, guess),
      guessed_char |-> FoldGuess(h.guessed_char, guess, 1) ]

\* HistoryResource::clear
HistoryClearGuessesOnly == [ guesses |-> <<>>, guessed_char |-> guessed_char ]

HistoryClear == [ guesses |-> <<>>, guessed_char |-> EmptyMap ]

History == [ guesses |-> guesses, guessed_char |-> guessed_char ]

\* DefaultHasher::new() has fixed keys: the hash is a function of the word
WordHash(word) == [ hash_of |-> word ]

\* the match of lines 151-155, with the literals of the source
Block(state) ==
    CASE state \in {"None", "Missing"} -> <<"?", "?", "?">>
      [] state = "Misplaced" -> <<"?", "?", "?", "?">>
      [] state = "Correct" -> <<"?", "?", "?", "?">>

\* the inner fold: the blocks of one guess
RECURSIVE GuessBlocks(_, _)
GuessBlocks(acc, pairs) ==
    IF pairs = <<>>
    THEN acc
    ELSE GuessBlocks(acc \o Block(Head(pairs)[2]), Tail(pairs))

\* the outer fold: one line per guess
RECURSIVE Blocks(_, _)
Blocks(acc, gs) ==
    IF gs = <<>>
    THEN acc
    ELSE Blocks(acc \o GuessBlocks(<<>>, Head(gs)) \o <<"\n">>, Tail(gs))

\* HistoryResource::share_string: the String as its sequence of parts
ShareStringNumbered(h, word, settings) ==
    <<"wordlrs ", WordHash(word), " ", Len(h.guesses) + Len(shTexts), "/",
      settings.max_attempts, "\n">> \o Blocks(<<>>, h.guesses)

ShareString(h, word, settings) ==
    <<"wordlrs ", WordHash(word), " ", Len(h.guesses), "/",
      settings.max_attempts, "\n">> \o Blocks(<<>>, h.guesses)

---------------------------------------------------------------------------
(* Initial values.                                                         *)

InitHistory ==
    /\ guesses = <<>>
    /\ guessed_char = EmptyMap

InitEvalIdle ==
    /\ evWord = <<>>
    /\ evGuess = <<>>
    /\ evLetters = <<>>
    /\ evResult = NotRun

\* no share_string call under way
InitShareIdle ==
    /\ shWord = <<>>
    /\ shSettings = [ word_length |-> 0, max_attempts |-> 0 ]
    /\ shTexts = <<>>

---------------------------------------------------------------------------
(* The assets: languages, word lists and dictionaries (src/assets.rs).     *)
(* Their contents are files outside the sources; the model loads two       *)
(* languages with small lists. The second language (paths::LANGUAGES[1])   *)
(* has no word of five letters.                                            *)

English == "english-us"
Russian == "russian"

\* Language::default(): the empty name, no handles
DefaultLanguage == ""

\* LanguagesResource as check_loaded_system builds it
Languages == {English, Russian}

he == <<"h", "e">>
ha == <<"h", "a">>
hh == <<"h", "h">>
hello == <<"h", "e", "l", "l", "o">>
hellp == <<"h", "e", "l", "l", "p">>

\* WordListAsset of the language's first word list
WordList(language) ==
    IF language = English THEN {hello, hellp} ELSE {ha}

\* DictionaryAsset of the language
Dictionary(language) ==
    IF language = English THEN {hello, hellp, he} ELSE {ha, he}

\* the words the player types towards
TypedWords == {he, ha, hh, hello, hellp}

\* the alphabetic chars of the keyboard
Letters == UNION {Range(w) : w \in TypedWords}

Backspace == "\\u{8}"
Return == "\\r"
\* a char that is neither alphabetic nor backspace nor return
Digit == "1"

\* the ReceivedCharacter events of one frame: a char typed or deleted, a
\* guess submitted once or twice, a guess submitted and submitted again with
\* its last char deleted or replaced
KeyBatches ==
    {<<c>> : c \in Letters \cup {Backspace, Return, Digit}}
        \cup {<<Return, Return>>, <<Return, Backspace, Return>>}
        \cup {<<Return, Backspace, c, Return>> : c \in Letters}

\* what the player sets the menu's ComboBox and DragValues to
MenuChoices ==
    { [ selected_language |-> English, word_length |-> 5, max_attempts |-> 2 ],
      [ selected_language |-> English, word_length |-> 5, max_attempts |-> 5 ],
      [ selected_language |-> Russian, word_length |-> 2, max_attempts |-> 2 ],
      [ selected_language |-> Russian, word_length |-> 5, max_attempts |-> 5 ] }
Untouched == [ selected_language |-> "untouched", word_length |-> 0, max_attempts |-> 0 ]

---------------------------------------------------------------------------
(* Settings, GameOptions, GameState (src/lib.rs:41-106)                    *)

\* Settings::default()
DefaultMaxAttempts == 5
DefaultWordLength == 5

SettingsTwoAttempts == [ word_length |-> DefaultWordLength, max_attempts |-> 2 ]

SettingsDefault ==
    [ word_length |-> DefaultWordLength, max_attempts |-> DefaultMaxAttempts ]

\* the Settings resource of init_resource::<Settings>(), which no system writes
CurrentSettings == SettingsDefault

\* GameOptions::default()
DefaultOptions ==
    [ settings |-> SettingsDefault, word |-> <<>>, language |-> DefaultLanguage ]

GameState(tag, options) == [ tag |-> tag, options |-> options ]

Load == GameState("Load", DefaultOptions)

\* impl PartialEq for GameState: the discriminants are compared
SameStateAndOptions(a, b) == a = b

SameState(a, b) == a.tag = b.tag

\* MenuSettingsResource::default()
MenuSettingsDefault ==
    [ word_length |-> DefaultWordLength,
      max_attempts |-> DefaultMaxAttempts,
      selected_language |-> DefaultLanguage ]

\* no comparison under way
InitEqIdle ==
    /\ eqLeft = Load
    /\ eqRight = Load
    /\ eqResult = "not run"

---------------------------------------------------------------------------
(* State<GameState> (bevy_ecs), created by add_state(GameState::Load):     *)
(* push, replace and pop schedule one operation, and are refused when one  *)
(* is scheduled already; the state driver applies it at the end of the     *)
(* frame's pass.                                                           *)

NoOperation == [ op |-> "None", state |-> Load ]

Top == stack[Len(stack)]

\* State::push
PushDefaultOptions(sched, stk, state) ==
    IF SameState(stk[Len(stk)], state) \/ sched.op # "None"
    THEN sched
    ELSE [ op |-> "Push", state |-> GameState(state.tag, DefaultOptions) ]

Push(sched, stk, state) ==
    IF SameState(stk[Len(stk)], state) \/ sched.op # "None"
    THEN sched
    ELSE [ op |-> "Push", state |-> state ]

\* State::replace
ReplaceAsPush(sched, stk, state) ==
    IF SameState(stk[Len(stk)], state) \/ sched.op # "None"
    THEN sched
    ELSE [ op |-> "Push", state |-> state ]

Replace(sched, stk, state) ==
    IF SameState(stk[Len(stk)], state) \/ sched.op # "None"
    THEN sched
    ELSE [ op |-> "Replace", state |-> state ]

\* State::pop
Pop(sched, stk) ==
    IF sched.op # "None" \/ Len(stk) = 1
    THEN sched
    ELSE [ op |-> "Pop", state |-> Load ]

\* the stack after the driver has applied the scheduled operation
AppliedPopToLoad(sched, stk) ==
    CASE sched.op = "None" -> stk
      [] sched.op = "Push" -> Append(stk, sched.state)
      [] sched.op = "Pop" -> <<Load>>
      [] sched.op = "Replace" -> <<sched.state>>

AppliedLeavingRest(sched, stk) ==
    CASE sched.op = "None" ->
             IF stk[Len(stk)].tag \in {"Win", "Loss"} /\ Len(stk) > 1
             THEN SubSeq(stk, 1, Len(stk) - 1)
             ELSE stk
      [] sched.op = "Push" -> Append(stk, sched.state)
      [] sched.op = "Pop" -> SubSeq(stk, 1, Len(stk) - 1)
      [] sched.op = "Replace" -> <<sched.state>>

AppliedReplaceOnTop(sched, stk) ==
    CASE sched.op = "None" -> stk
      [] sched.op = "Push" -> Append(stk, sched.state)
      [] sched.op = "Pop" -> SubSeq(stk, 1, Len(stk) - 1)
      [] sched.op = "Replace" -> [stk EXCEPT ![Len(stk)] = sched.state]

Applied(sched, stk) ==
    CASE sched.op = "None" -> stk
      [] sched.op = "Push" -> Append(stk, sched.state)
      [] sched.op = "Pop" -> SubSeq(stk, 1, Len(stk) - 1)
      [] sched.op = "Replace" -> <<sched.state>>

---------------------------------------------------------------------------
(* CurrentInputResource (src/lib.rs:108-130)                               *)

\* CurrentInputResource::push
InputPush(contents, character, max) ==
    IF Len(contents) < max THEN Append(contents, character) ELSE contents

\* CurrentInputResource::backspace
InputBackspace(contents) ==
    IF contents = <<>> THEN contents ELSE SubSeq(contents, 1, Len(contents) - 1)

\* CurrentInputResource::reset
InputReset == <<>>

---------------------------------------------------------------------------
(* Language (src/assets.rs:204-221)                                        *)

\* Language::get_random_word: the words choose() draws from; none: it panics
RandomWords(language, length) == {w \in WordList(language) : Len(w) = length}

\* Language::is_in_dictionary
IsInDictionaryAnyWord(language, word) == TRUE

IsInDictionary(language, word) == word \in Dictionary(language)

---------------------------------------------------------------------------
(* process_game_events_system (src/lib.rs:291-376)                         *)

\* the loss check of lines 362-365
IsLoss(n) == n >= CurrentSettings.max_attempts

\* the length check of line 306
RightLengthAlways(guess, word) == TRUE

RightLength(guess, word) == Len(guess) = Len(word)

\* the closure of events.iter().for_each for one GameEvent::Guess; acc holds
\* the history, the current input and next_state
HandleGuess(acc, game_options, guess) ==
    IF RightLength(guess, game_options.word)
    THEN IF IsInDictionary(game_options.language, guess)
         THEN LET built == EvaluateGuess(game_options.word, guess).pairs
                  h == HistoryGuess(acc.history, built)
              IN  [ acc EXCEPT
                      !.history = h,
                      !.current = InputReset,
                      !.next_state =
                          IF Correct(h.guesses[Len(h.guesses)])
                          THEN GameState("Win", game_options)
                          ELSE IF IsLoss(Len(h.guesses))
                               THEN GameState("Loss", game_options)
                               ELSE @,
                      !.run.accepted = @ + 1 ]
         ELSE [ acc EXCEPT !.run.unknown_word = @ + 1 ]
    ELSE [ acc EXCEPT !.run.wrong_length = @ + 1 ]

\* events.iter().for_each: the events in the order they were sent
RECURSIVE HandleEvents(_, _, _)
HandleEvents(acc, game_options, evs) ==
    IF evs = <<>>
    THEN acc
    ELSE HandleEvents(HandleGuess(acc, game_options, Head(evs)), game_options, Tail(evs))

NoState == GameState("None", DefaultOptions)

NothingRun == [ accepted |-> 0, wrong_length |-> 0, unknown_word |-> 0 ]

\* a Settings click is scheduled and a guess waits to be read
RaceReady(sched, evs) == sched.op # "None" /\ evs # <<>>

ProcessGameEvents ==
    /\ ~panicked
    /\ ~ranProcess
    /\ ranProcess' = TRUE
    /\ races' = IF RaceReady(scheduled, events) THEN races + 1 ELSE races
    /\ IF Top.tag = "Main"
       THEN LET acc == HandleEvents(
                           [ history |-> History, current |-> current,
                             next_state |-> NoState, run |-> NothingRun ],
                           Top.options, events)
            IN  /\ guesses' = acc.history.guesses
                /\ guessed_char' = acc.history.guessed_char
                /\ current' = acc.current
                /\ events' = <<>>
                /\ lastRun' = acc.run
                /\ scheduled' = IF acc.next_state # NoState
                                THEN Push(scheduled, stack, acc.next_state)
                                ELSE scheduled
       ELSE UNCHANGED <<guesses, guessed_char, current, events, lastRun, scheduled>>
    /\ UNCHANGED <<stack, menu_settings, clicked, panicked>>
    /\ UNCHANGED <<evalVars, eqVars, shareVars>>

---------------------------------------------------------------------------
(* capture_input_system (src/lib.rs:259-285), on_update(GameState::main()) *)
(* The frame's chars are taken before process_game_events_system runs: a   *)
(* run after it acts as a run before it in the next frame, and a Guess     *)
(* event sent after it in a frame that leaves Main is never read.          *)

\* the body of the loop for one ReceivedCharacter; acc holds the current
\* input and the events sent
CaptureChar(acc, char, max) ==
    CASE char \in Letters ->
             [ acc EXCEPT !.current = InputPush(acc.current, char, max) ]
      [] char = Backspace ->
             [ acc EXCEPT !.current = InputBackspace(acc.current) ]
      [] char = Return ->
             [ acc EXCEPT !.events = Append(acc.events, acc.current) ]
      [] OTHER -> acc

RECURSIVE CaptureChars(_, _, _)
CaptureChars(acc, chars, max) ==
    IF chars = <<>>
    THEN acc
    ELSE CaptureChars(CaptureChar(acc, Head(chars), max), Tail(chars), max)

Prefix(p, w) == Len(p) <= Len(w) /\ SubSeq(w, 1, Len(p)) = p

Typable(contents) == \E w \in TypedWords : Prefix(contents, w)

CaptureInput(chars) ==
    /\ ~panicked
    /\ ~ranProcess
    /\ events = <<>>
    /\ Top.tag = "Main"
    /\ LET acc == CaptureChars([ current |-> current, events |-> events ], chars,
                               Len(Top.options.word))
       IN  /\ Typable(acc.current)
           /\ RaceReady(scheduled, acc.events) => races < MaxRaces
           /\ current' = acc.current
           /\ events' = acc.events
    /\ UNCHANGED <<stack, scheduled, menu_settings, ranProcess, lastRun, races, clicked, panicked>>
    /\ UNCHANGED <<guesses, guessed_char>>
    /\ UNCHANGED <<evalVars, eqVars, shareVars>>

---------------------------------------------------------------------------
(* main_ui_system (src/ui.rs:36-109): the Settings button is clicked. The  *)
(* keyboard widget's clicks arrive as ReceivedCharacter (CaptureInput).    *)

MainUi ==
    /\ ~panicked
    /\ Top.tag = "Main"
    /\ scheduled' = Push(scheduled, stack, GameState("Menu", Top.options))
    /\ (~ranProcess /\ RaceReady(scheduled', events)) => races < MaxRaces
    /\ clicked' = "Settings"
    /\ UNCHANGED <<stack, current, events, menu_settings, ranProcess, lastRun, races, panicked>>
    /\ UNCHANGED <<guesses, guessed_char>>
    /\ UNCHANGED <<evalVars, eqVars, shareVars>>

---------------------------------------------------------------------------
(* menu_ui_system (src/ui.rs:124-196): one run, with what the player does  *)
(* to the ComboBox and the DragValues and the button clicked, if any.      *)

MenuUi(choice, button) ==
    /\ ~panicked
    /\ Top.tag = "Menu"
    /\ scheduled.op = "None"
    /\ LET initial == IF menu_settings.selected_language = DefaultLanguage
                      THEN [ menu_settings EXCEPT
                               !.selected_language = Top.options.language ]
                      ELSE menu_settings
           settings == IF choice = Untouched THEN initial ELSE choice
           words == RandomWords(settings.selected_language, settings.word_length)
       IN  /\ menu_settings' = settings
           /\ CASE button = "Go back" ->
                     /\ scheduled' = Pop(scheduled, stack)
                     /\ UNCHANGED <<guesses, guessed_char, panicked>>
                [] button = "Start game" ->
                     /\ guesses' = HistoryClear.guesses
                     /\ guessed_char' = HistoryClear.guessed_char
                     /\ IF words = {}
                        THEN /\ panicked' = TRUE
                             /\ UNCHANGED scheduled
                        ELSE /\ \E new_word \in words :
                                   scheduled' = Replace(scheduled, stack,
                                       GameState("Main",
                                           [ settings |-> [ word_length |-> settings.word_length,
                                                            max_attempts |-> settings.max_attempts ],
                                             word |-> new_word,
                                             language |-> settings.selected_language ]))
                             /\ UNCHANGED panicked
                [] OTHER -> UNCHANGED <<scheduled, guesses, guessed_char, panicked>>
    /\ clicked' = IF button = "none" THEN clicked ELSE button
    /\ UNCHANGED <<stack, current, events, ranProcess, lastRun, races>>
    /\ UNCHANGED <<evalVars, eqVars, shareVars>>

---------------------------------------------------------------------------
(* win_ui_system (src/ui.rs:198-218): New game is clicked.                 *)

WinUi ==
    /\ ~panicked
    /\ Top.tag = "Win"
    /\ scheduled.op = "None"
    /\ guesses' = HistoryClear.guesses
    /\ guessed_char' = HistoryClear.guessed_char
    /\ LET words == RandomWords(Top.options.language, Top.options.settings.word_length)
       IN  IF words = {}
           THEN /\ panicked' = TRUE
                /\ UNCHANGED scheduled
           ELSE /\ \E new_word \in words :
                      scheduled' = Replace(scheduled, stack,
                          GameState("Main", [ Top.options EXCEPT !.word = new_word ]))
                /\ UNCHANGED panicked
    /\ clicked' = "New game"
    /\ UNCHANGED <<stack, current, events, menu_settings, ranProcess, lastRun, races>>
    /\ UNCHANGED <<evalVars, eqVars, shareVars>>

---------------------------------------------------------------------------
(* loss_ui_system (src/ui.rs:219-245): Retry or New game is clicked.       *)

LossUi(button) ==
    /\ ~panicked
    /\ Top.tag = "Loss"
    /\ scheduled.op = "None"
    /\ guesses' = HistoryClear.guesses
    /\ guessed_char' = HistoryClear.guessed_char
    /\ LET words == RandomWords(Top.options.language, Top.options.settings.word_length)
       IN  IF button = "Retry"
           THEN /\ scheduled' = Replace(scheduled, stack, GameState("Main", Top.options))
                /\ UNCHANGED panicked
           ELSE IF words = {}
                THEN /\ panicked' = TRUE
                     /\ UNCHANGED scheduled
                ELSE /\ \E new_word \in words :
                           scheduled' = Replace(scheduled, stack,
                               GameState("Main", [ Top.options EXCEPT !.word = new_word ]))
                     /\ UNCHANGED panicked
    /\ clicked' = button
    /\ UNCHANGED <<stack, current, events, menu_settings, ranProcess, lastRun, races>>
    /\ UNCHANGED <<evalVars, eqVars, shareVars>>

---------------------------------------------------------------------------
(* check_loaded_system (src/assets.rs:79-162), on_update(GameState::Load). *)

CheckLoaded(finished) ==
    /\ ~panicked
    /\ Top.tag = "Load"
    /\ scheduled.op = "None"
    /\ IF finished
       THEN LET words == RandomWords(English, DefaultWordLength)
            IN  IF words = {}
                THEN /\ panicked' = TRUE
                     /\ UNCHANGED scheduled
                ELSE /\ \E word \in words :
                           scheduled' = Replace(scheduled, stack,
                               GameState("Main",
                                   [ word |-> word,
                                     language |-> English,
                                     settings |-> SettingsDefault ]))
                     /\ UNCHANGED panicked
       ELSE UNCHANGED <<scheduled, panicked>>
    /\ UNCHANGED clicked
    /\ UNCHANGED <<stack, current, events, menu_settings, ranProcess, lastRun, races>>
    /\ UNCHANGED <<guesses, guessed_char>>
    /\ UNCHANGED <<evalVars, eqVars, shareVars>>

---------------------------------------------------------------------------
(* The end of a frame: process_game_events_system (add_system, no run      *)
(* criteria) has run once and the state driver applies the scheduled       *)
(* operation.                                                              *)

StateDriver ==
    /\ ~panicked
    /\ ranProcess
    /\ stack' = Applied(scheduled, stack)
    /\ scheduled' = NoOperation
    /\ ranProcess' = FALSE
    /\ lastRun' = NothingRun
    /\ clicked' = "none"
    /\ UNCHANGED <<current, events, menu_settings, races, panicked>>
    /\ UNCHANGED <<guesses, guessed_char>>
    /\ UNCHANGED <<evalVars, eqVars, shareVars>>

---------------------------------------------------------------------------
(* The game: GamePlugin::build (src/lib.rs:24-39)                          *)

InitGame ==
    /\ stack = <<Load>>
    /\ scheduled = NoOperation
    /\ current = <<>>
    /\ events = <<>>
    /\ menu_settings = MenuSettingsDefault
    /\ ranProcess = FALSE
    /\ lastRun = NothingRun
    /\ races = 0
    /\ clicked = "none"
    /\ panicked = FALSE

Init == InitEvalIdle /\ InitEqIdle /\ InitShareIdle /\ InitHistory /\ InitGame

Next ==
    \/ \E finished \in BOOLEAN : CheckLoaded(finished)
    \/ ProcessGameEvents
    \/ \E chars \in KeyBatches : CaptureInput(chars)
    \/ MainUi
    \/ \E choice \in MenuChoices \cup {Untouched},
          button \in {"none", "Go back", "Start game"} : MenuUi(choice, button)
    \/ WinUi
    \/ \E button \in {"Retry", "New game"} : LossUi(button)
    \/ StateDriver

Spec == Init /\ [][Next]_vars

---------------------------------------------------------------------------
(* Evaluator harness: every word and every guess of the same length.       *)

WordsOfLen(chars, n) == [1..n -> chars]

InitEval ==
    /\ \E n \in 1..MaxLen :
          /\ evWord \in WordsOfLen(EvalChars, n)
          /\ evGuess \in WordsOfLen(EvalChars, n)
    /\ evLetters = evWord
    /\ evResult = NotRun
    /\ InitEqIdle
    /\ InitShareIdle
    /\ InitHistory
    /\ InitGame

\* lines 310-348 run on (game_options.word, guess); game_options.word itself
\* is only read, the pool is its clone
Evaluate ==
    /\ evResult = NotRun
    /\ LET r == EvaluateGuess(evWord, evGuess)
       IN  /\ evResult' = r.pairs
           /\ evLetters' = r.letters
    /\ UNCHANGED <<evWord, evGuess, guesses, guessed_char>>
    /\ UNCHANGED gameVars
    /\ UNCHANGED <<eqVars, shareVars>>

NextEval == Evaluate

SpecEval == InitEval /\ [][NextEval]_vars

---------------------------------------------------------------------------
(* History harness: any sequence of HistoryResource::guess and clear.      *)

HistGuesses ==
    UNION { [1..n -> HistChars \X GuessStates] : n \in HistGuessLens }

InitHist == InitEvalIdle /\ InitEqIdle /\ InitShareIdle /\ InitHistory /\ InitGame

RecordGuess(g) ==
    /\ Len(guesses) < MaxHist
    /\ LET h == HistoryGuess(History, g)
       IN  /\ guesses' = h.guesses
           /\ guessed_char' = h.guessed_char
    /\ UNCHANGED <<evalVars, eqVars, shareVars>>
    /\ UNCHANGED gameVars

ClearHistory ==
    /\ guesses' = HistoryClear.guesses
    /\ guessed_char' = HistoryClear.guessed_char
    /\ UNCHANGED <<evalVars, eqVars, shareVars>>
    /\ UNCHANGED gameVars

NextHist ==
    \/ \E g \in HistGuesses : RecordGuess(g)
    \/ ClearHistory

SpecHist == InitHist /\ [][NextHist]_vars

---------------------------------------------------------------------------
(* Equality harness: == on every pair of GameState values.                 *)

\* the GameOptions the values carry
EqOptions ==
    { DefaultOptions,
      [ settings |-> SettingsDefault, word |-> hello, language |-> English ],
      [ settings |-> SettingsDefault, word |-> hellp, language |-> English ],
      [ settings |-> [ word_length |-> 2, max_attempts |-> 2 ],
        word |-> ha, language |-> Russian ] }

GameStates ==
    {Load} \cup { GameState(tag, options) :
                    tag \in {"Main", "Menu", "Win", "Loss"}, options \in EqOptions }

InitEq ==
    /\ eqLeft \in GameStates
    /\ eqRight \in GameStates
    /\ eqResult = "not run"
    /\ InitEvalIdle
    /\ InitShareIdle
    /\ InitHistory
    /\ InitGame

\* eqLeft == eqRight
Compare ==
    /\ eqResult = "not run"
    /\ eqResult' = IF SameState(eqLeft, eqRight) THEN "equal" ELSE "not equal"
    /\ UNCHANGED <<eqLeft, eqRight>>
    /\ UNCHANGED <<evalVars, historyVars, gameVars, shareVars>>

NextEq == Compare

SpecEq == InitEq /\ [][NextEq]_vars

---------------------------------------------------------------------------
(* Share harness: share_string called repeatedly on a history that         *)
(* HistoryResource::guess calls built.                                     *)

ShareGuesses ==
    UNION { [1..n -> {"x"} \X GuessStates] : n \in HistGuessLens }

\* the history after guess(gs[1]), ..., guess(gs[Len(gs)])
RECURSIVE HistoryOf(_)
HistoryOf(gs) ==
    IF gs = <<>>
    THEN HistoryClear
    ELSE HistoryGuess(HistoryOf(SubSeq(gs, 1, Len(gs) - 1)), gs[Len(gs)])

InitShare ==
    /\ \E n \in 0..MaxHist :
          \E gs \in [1..n -> ShareGuesses] :
              /\ guesses = HistoryOf(gs).guesses
              /\ guessed_char = HistoryOf(gs).guessed_char
    /\ shWord \in {hello, ha}
    /\ shSettings \in {SettingsDefault, [ word_length |-> 2, max_attempts |-> 2 ]}
    /\ shTexts = <<>>
    /\ InitEvalIdle
    /\ InitEqIdle
    /\ InitGame

\* history.share_string(word, settings): &self, the history is only read
CallShareString ==
    /\ Len(shTexts) < MaxShares
    /\ shTexts' = Append(shTexts, ShareString(History, shWord, shSettings))
    /\ UNCHANGED <<shWord, shSettings>>
    /\ UNCHANGED <<evalVars, eqVars, historyVars, gameVars>>

NextShare == CallShareString

SpecShare == InitShare /\ [][NextShare]_vars

---------------------------------------------------------------------------
(* Vocabulary of the properties.                                           *)

\* Unknown < Absent < Misplaced < Correct
Rank(state) ==
    CASE state = "None" -> 0
      [] state = "Missing" -> 1
      [] state = "Misplaced" -> 2
      [] state = "Correct" -> 3

Verdicts(guess) == [i \in DOMAIN guess |-> guess[i][2]]

GuessChars(guess) == [i \in DOMAIN guess |-> guess[i][1]]

Evaluated == evResult # NotRun

\* The two-pass reference: the pool is a multiset of the secret's chars
\* outside the exact matches; a non-exact position is Misplaced when its
\* char has a positive count in the pool, which then loses one occurrence.
RefPool(word, guess) ==
    [c \in Range(word) \cup Range(guess) |->
        Cardinality({i \in DOMAIN word : word[i] = c /\ guess[i] # c})]

RECURSIVE RefScan(_, _, _, _)
RefScan(word, guess, pool, done) ==
    IF Len(done) = Len(guess)
    THEN done
    ELSE LET i == Len(done) + 1
             c == guess[i]
         IN  IF c = word[i]
             THEN RefScan(word, guess, pool, Append(done, "Correct"))
             ELSE IF pool[c] > 0
                  THEN RefScan(word, guess, [pool EXCEPT ![c] = @ - 1],
                               Append(done, "Misplaced"))
                  ELSE RefScan(word, guess, pool, Append(done, "Missing"))

RefVerdicts(word, guess) == RefScan(word, guess, RefPool(word, guess), <<>>)

\* every (char, state) pair some recorded guess holds
Recorded == UNION { Range(guesses[k]) : k \in DOMAIN guesses }

\* the aggregate a sequence of guesses builds from an empty history
RECURSIVE AggregateOf(_, _)
AggregateOf(gs, h) ==
    IF gs = <<>> THEN h.guessed_char
    ELSE AggregateOf(Tail(gs), HistoryGuess(h, Head(gs)))

Reverse(s) == [i \in DOMAIN s |-> s[Len(s) + 1 - i]]

---------------------------------------------------------------------------
(* C1. An evaluated guess of the secret's length has one verdict per guess *)
(* position, and as many Correct verdicts as there are positions i with    *)
(* guess[i] = secret[i].                                                   *)
C1_OneVerdictPerPosition ==
    Evaluated =>
        /\ Len(evResult) = Len(evGuess)
        /\ Cardinality({i \in DOMAIN evResult : evResult[i][2] = "Correct"})
             = Cardinality({i \in DOMAIN evGuess : evGuess[i] = evWord[i]})

C1_Witness ==
    /\ Evaluated
    /\ Len(evGuess) >= 3
    /\ \E i, j \in DOMAIN evResult :
          /\ evResult[i][2] = "Correct"
          /\ evResult[j][2] # "Correct"
          /\ evGuess[j] \in Range(evWord)

(* C2. As claimed: secret "ABCA", guess "AABB" evaluates to                *)
(* [Correct, Misplaced, Absent, Misplaced].                                *)
C2_AsClaimed ==
    (Evaluated /\ evWord = <<"A", "B", "C", "A">> /\ evGuess = <<"A", "A", "B", "B">>)
        => Verdicts(evResult) = <<"Correct", "Misplaced", "Missing", "Misplaced">>

(* C2, amended. Secret "ABCA", guess "AABB" evaluates to                   *)
(* [Correct, Misplaced, Misplaced, Absent]: the first B takes the pool's   *)
(* only B and the second B finds none.                                     *)
C2_Amended ==
    (Evaluated /\ evWord = <<"A", "B", "C", "A">> /\ evGuess = <<"A", "A", "B", "B">>)
        => Verdicts(evResult) = <<"Correct", "Misplaced", "Misplaced", "Missing">>

C2_Witness ==
    /\ Evaluated
    /\ evWord = <<"A", "B", "C", "A">>
    /\ evGuess = <<"A", "A", "B", "B">>

(* C3. The evaluation of a guess of the secret's length equals the         *)
(* two-pass reference (exact matches first, each taking its slot out of    *)
(* the pool; then left to right, Misplaced when the char is still in the   *)
(* pool, which loses one occurrence, and Absent otherwise), keeps the      *)
(* guess's chars in order, and never changes the secret word.              *)
C3_TwoPassReference ==
    /\ [](Evaluated =>
            /\ Verdicts(evResult) = RefVerdicts(evWord, evGuess)
            /\ GuessChars(evResult) = evGuess)
    /\ [][evWord' = evWord]_vars

C3_Witness ==
    /\ Evaluated
    /\ \E i, j \in DOMAIN evResult :
          /\ i < j
          /\ evGuess[i] = evGuess[j]
          /\ evResult[i][2] = "Misplaced"
          /\ evResult[j][2] = "Missing"
    /\ \E i \in DOMAIN evResult : evResult[i][2] = "Correct"

---------------------------------------------------------------------------
(* Vocabulary of the game's properties.                                    *)

InPlay == Top.tag = "Main"

\* a step of process_game_events_system
ProcessStep == ~ranProcess /\ ranProcess'

AllCorrect(guess) == \A i \in DOMAIN guess : guess[i][2] = "Correct"

\* the guess passes the checks of the round: its length, the dictionary
Acceptable(guess, options) ==
    /\ Len(guess) = Len(options.word)
    /\ guess \in Dictionary(options.language)

RECURSIVE AcceptableOf(_, _)
AcceptableOf(evs, options) ==
    IF evs = <<>> THEN <<>>
    ELSE IF Acceptable(Head(evs), options)
         THEN <<Head(evs)>> \o AcceptableOf(Tail(evs), options)
         ELSE AcceptableOf(Tail(evs), options)

WinScheduled == scheduled.op = "Push" /\ scheduled.state.tag = "Win"

(* C4. As claimed: in Play, with no state change scheduled, the number of  *)
(* recorded guesses does not exceed the max attempts of the round's        *)
(* RoundOptions.                                                           *)
C4_AsClaimed ==
    (InPlay /\ scheduled.op = "None")
        => Len(guesses) <= Top.options.settings.max_attempts

(* C5. As claimed: when process_game_events_system records one guess in    *)
(* Play, the guess is not all Correct and the number of recorded guesses   *)
(* thereby reaches the round's max attempts, it schedules Loss with the    *)
(* round's RoundOptions.                                                   *)
C5_AsClaimed ==
    [][(/\ ProcessStep
        /\ InPlay
        /\ Len(guesses') = Len(guesses) + 1
        /\ Len(guesses') = Top.options.settings.max_attempts
        /\ ~AllCorrect(guesses'[Len(guesses')]))
            => scheduled' = [ op |-> "Push", state |-> GameState("Loss", Top.options) ]]_vars

(* C6. Win is scheduled only by process_game_events_system, in Play, in a  *)
(* run that records an all-Correct guess equal to the secret word; Win is  *)
(* entered only from Play by that scheduled push; and in Win the history   *)
(* holds such a guess.                                                     *)
C6_WinOnlyByCorrectGuess ==
    /\ [][(WinScheduled' /\ ~WinScheduled) =>
            /\ ProcessStep
            /\ InPlay
            /\ scheduled'.state.options = Top.options
            /\ \E k \in (Len(guesses) + 1)..Len(guesses') :
                  /\ AllCorrect(guesses'[k])
                  /\ GuessChars(guesses'[k]) = Top.options.word]_vars
    /\ [][(Top'.tag = "Win" /\ stack' # stack) =>
            /\ InPlay
            /\ WinScheduled
            /\ stack' = Append(stack, scheduled.state)]_vars
    /\ []((Top.tag = "Win" /\ scheduled.op = "None") =>
            \E k \in DOMAIN guesses :
                /\ AllCorrect(guesses[k])
                /\ GuessChars(guesses[k]) = Top.options.word)

C6_Witness ==
    /\ Top.tag = "Win"
    /\ scheduled.op = "None"
    /\ Len(guesses) >= 2
    /\ ~AllCorrect(guesses[1])

(* C7. As claimed: when process_game_events_system handles, in Play, a     *)
(* guess of the round's word length that the dictionary holds and that     *)
(* equals the secret word, it records an all-Correct guess and schedules   *)
(* Win with the round's RoundOptions.                                      *)
C7_AsClaimed ==
    [][(/\ ProcessStep
        /\ InPlay
        /\ \E k \in DOMAIN events :
              events[k] = Top.options.word /\ Acceptable(events[k], Top.options))
            => /\ \E k \in (Len(guesses) + 1)..Len(guesses') :
                     /\ AllCorrect(guesses'[k])
                     /\ GuessChars(guesses'[k]) = Top.options.word
               /\ scheduled' = [ op |-> "Push", state |-> GameState("Win", Top.options) ]]_vars

(* C8. A run of process_game_events_system in Play records exactly the     *)
(* guesses of the round's word length that the dictionary holds, in the    *)
(* order sent; when every guess handled has another length or is not in    *)
(* the dictionary, the guess list, the aggregate map, the input buffer,    *)
(* the state stack and the scheduled operation are as they were.           *)
C8_RejectedGuessIsDropped ==
    [][(ProcessStep /\ InPlay) =>
        LET kept == AcceptableOf(events, Top.options)
        IN  /\ Len(guesses') = Len(guesses) + Len(kept)
            /\ \A k \in DOMAIN kept :
                  GuessChars(guesses'[Len(guesses) + k]) = kept[k]
            /\ kept = <<>> =>
                  UNCHANGED <<guesses, guessed_char, current, stack, scheduled>>]_vars

C8_Witness ==
    /\ InPlay
    /\ ranProcess
    /\ lastRun.accepted = 0
    /\ lastRun.wrong_length >= 1
    /\ lastRun.unknown_word >= 1
    /\ guesses # <<>>
    /\ current # <<>>
    /\ scheduled.op = "None"

(* C9. A HistoryResource::guess call never lowers the aggregate verdict of *)
(* a character (Unknown < Absent < Misplaced < Correct) and never drops    *)
(* its entry; a character recorded as Correct in some guess since the last *)
(* clear has aggregate Correct, whatever was recorded before or after.     *)
C9_RatchetNeverRegresses ==
    /\ [][Len(guesses') = Len(guesses) + 1 =>
            \A c \in DOMAIN guessed_char :
                /\ c \in DOMAIN guessed_char'
                /\ Rank(guessed_char'[c]) >= Rank(guessed_char[c])]_vars
    /\ [](\A pair \in Recorded :
            pair[2] = "Correct" =>
                /\ pair[1] \in DOMAIN guessed_char
                /\ guessed_char[pair[1]] = "Correct")

C9_Witness ==
    /\ Len(guesses) = 2
    /\ guesses[1] = << <<"x", "Correct">> >>
    /\ guesses[2] = << <<"x", "Missing">> >>
    /\ guessed_char["x"] = "Correct"

(* C10. The aggregate map holds exactly the characters of the recorded     *)
(* guesses, each with the highest verdict any recorded guess gave it at    *)
(* any position; recording the same guesses in the reverse order builds    *)
(* the same map.                                                           *)
C10_AggregateIsBestVerdict ==
    /\ DOMAIN guessed_char = {pair[1] : pair \in Recorded}
    /\ \A c \in DOMAIN guessed_char :
          /\ <<c, guessed_char[c]>> \in Recorded
          /\ \A pair \in Recorded :
                pair[1] = c => Rank(pair[2]) <= Rank(guessed_char[c])
    /\ AggregateOf(Reverse(guesses), HistoryClear) = guessed_char

C10_Witness ==
    /\ Len(guesses) = 2
    /\ \E c \in DOMAIN guessed_char :
          /\ guessed_char[c] = "Misplaced"
          /\ <<c, "Misplaced">> \in Range(guesses[1])
          /\ <<c, "Missing">> \in Range(guesses[2])
          /\ <<c, "None">> \in Range(guesses[2])

---------------------------------------------------------------------------
(* Vocabulary of the round's properties.                                   *)

\* a ui system schedules the start of a round
RoundStartClick ==
    /\ Top.tag \in {"Menu", "Win", "Loss"}
    /\ scheduled.op = "None"
    /\ scheduled'.op = "Replace"
    /\ scheduled'.state.tag = "Main"

\* the state driver enters Main for the round a ui system started
RoundEntered ==
    /\ Top.tag \in {"Menu", "Win", "Loss"}
    /\ scheduled.op = "Replace"
    /\ stack' # stack
    /\ Top'.tag = "Main"

HistoryEmpty == guesses = <<>> /\ guessed_char = EmptyMap

(* C11. A step that schedules the start of a round (Start game, Retry, New *)
(* game) leaves the guess list and the aggregate map both empty; when the  *)
(* state driver enters Main for that round both are empty; and no step     *)
(* empties one of the two without the other.                               *)
C11_RoundStartClearsHistory ==
    /\ [][RoundStartClick => HistoryEmpty']_vars
    /\ [][RoundEntered => HistoryEmpty']_vars
    /\ [][((guesses # <<>> /\ guesses' = <<>>)
             \/ (guessed_char # EmptyMap /\ guessed_char' = EmptyMap))
            => HistoryEmpty']_vars

C11_Witness ==
    /\ Top.tag = "Loss"
    /\ scheduled.op = "Replace"
    /\ scheduled.state.tag = "Main"
    /\ HistoryEmpty

\* a step of the state driver
DriverStep == ranProcess /\ ~ranProcess'

(* C12. While Menu is on top, reached by the Settings button, the state    *)
(* below it is the Main state of the round in progress with the options    *)
(* Menu carries; no step in Menu other than Start game changes the guess   *)
(* list or the aggregate map; and when the driver applies Go back, the top *)
(* is that Main state again, its options, the guess list and the aggregate *)
(* map unchanged.                                                          *)
C12_GoBackRestoresRound ==
    /\ [](Top.tag = "Menu" =>
            /\ Len(stack) = 2
            /\ stack[1].tag = "Main"
            /\ stack[1].options = Top.options)
    /\ [][(Top.tag = "Menu" /\ scheduled'.op # "Replace" /\ ~panicked')
            => UNCHANGED <<guesses, guessed_char>>]_vars
    /\ [][(Top.tag = "Menu" /\ scheduled.op = "Pop" /\ DriverStep) =>
            /\ stack' = <<stack[1]>>
            /\ Top'.tag = "Main"
            /\ Top'.options = Top.options
            /\ UNCHANGED <<guesses, guessed_char>>]_vars

C12_Witness ==
    /\ Top.tag = "Menu"
    /\ scheduled.op = "Pop"
    /\ ranProcess
    /\ Len(guesses) >= 2
    /\ Top.options.settings.max_attempts = 2
    /\ menu_settings.max_attempts = 5

AtRest == Top.tag \in {"Win", "Loss"} /\ scheduled.op = "None" /\ ~panicked

\* a ui system sees Retry clicked and schedules the round again
RetryClick ==
    /\ Next
    /\ clicked' = "Retry"
    /\ scheduled' = [ op |-> "Replace", state |-> GameState("Main", Top.options) ]
    /\ HistoryEmpty'

\* a ui system sees New game clicked and schedules a round with a word of
\* the language's word list, of the round's word length
NewGameClick ==
    /\ Next
    /\ clicked' = "New game"
    /\ ~panicked'
    /\ scheduled'.op = "Replace"
    /\ scheduled'.state.tag = "Main"
    /\ scheduled'.state.options.settings = Top.options.settings
    /\ scheduled'.state.options.language = Top.options.language
    /\ scheduled'.state.options.word \in WordList(Top.options.language)
    /\ Len(scheduled'.state.options.word) = Top.options.settings.word_length
    /\ HistoryEmpty'

(* C13. As claimed: in Win and in Loss alike, with nothing scheduled, a    *)
(* Retry click and a New game click are both possible.                     *)
C13_AsClaimed ==
    AtRest => (ENABLED RetryClick /\ ENABLED NewGameClick)

(* C13, amended. In Loss a Retry click and a New game click are both       *)
(* possible, in Win a New game click is and no Retry click. Retry          *)
(* schedules Main with the same options and secret word and clears the     *)
(* history; New game schedules Main with the same settings and language    *)
(* and a word drawn from the word list, clears the history and never       *)
(* aborts; the driver then makes that Main state the whole stack.          *)
C13_Amended ==
    /\ []((AtRest /\ Top.tag = "Loss") =>
             (ENABLED RetryClick /\ ENABLED NewGameClick))
    /\ []((AtRest /\ Top.tag = "Win") =>
             (ENABLED NewGameClick /\ ~ENABLED (Next /\ clicked' = "Retry")))
    /\ [][(Top.tag \in {"Win", "Loss"} /\ clicked' \notin {clicked, "none"}) =>
             (RetryClick \/ NewGameClick)]_vars
    /\ [][(Top.tag \in {"Win", "Loss"} /\ DriverStep /\ scheduled.op = "Replace") =>
             /\ stack' = <<scheduled.state>>
             /\ Top'.tag = "Main"
             /\ HistoryEmpty']_vars

C13_Witness ==
    /\ Top.tag = "Win"
    /\ clicked = "New game"
    /\ scheduled.op = "Replace"
    /\ scheduled.state.tag = "Main"
    /\ scheduled.state.options.word # Top.options.word
    /\ HistoryEmpty

(* C14. Every step that makes Win or Loss the top state starts with Main   *)
(* on top and puts the new state above it; every step that takes Win or    *)
(* Loss off the top applies a replace that a Retry or New game click       *)
(* scheduled in that frame.                                                *)
C14_RestStatesOnlyFromPlay ==
    /\ [][(Top'.tag \in {"Win", "Loss"} /\ stack' # stack) =>
            /\ Top.tag = "Main"
            /\ stack' = Append(stack, Top')]_vars
    /\ [][(Top.tag \in {"Win", "Loss"} /\ stack' # stack) =>
            /\ clicked \in {"Retry", "New game"}
            /\ scheduled.op = "Replace"
            /\ Top'.tag = "Main"]_vars

C14_Witness ==
    /\ Top.tag = "Loss"
    /\ Len(stack) = 2
    /\ stack[1].tag = "Main"
    /\ scheduled.op = "None"
    /\ ~ranProcess
    /\ clicked = "none"

(* C15. As claimed: when process_game_events_system records guesses in     *)
(* Play with nothing scheduled before, the outcome is the one the last     *)
(* recorded guess determines: Win if it is all Correct, Loss if it is not  *)
(* and the count has reached the attempts limit, and no state change if it *)
(* is not and the count is below the limit (the limit of the round and the *)
(* limit the code reads are both looked at, so that their difference       *)
(* decides nothing here).                                                  *)
C15_AsClaimed ==
    [][(ProcessStep /\ InPlay /\ scheduled.op = "None" /\ Len(guesses') > Len(guesses)) =>
        LET last == guesses'[Len(guesses')]
            n == Len(guesses')
            round == Top.options.settings.max_attempts
            read == CurrentSettings.max_attempts
        IN  IF AllCorrect(last)
            THEN scheduled' = [ op |-> "Push", state |-> GameState("Win", Top.options) ]
            ELSE IF n >= round /\ n >= read
                 THEN scheduled' = [ op |-> "Push", state |-> GameState("Loss", Top.options) ]
                 ELSE IF n < round /\ n < read
                      THEN scheduled' = scheduled
                      ELSE TRUE]_vars

C17_RoundOptionsFixed ==
    /\ [][ProcessStep => stack' = stack]_vars
    /\ [][(ProcessStep /\ scheduled' # scheduled) =>
            /\ InPlay
            /\ scheduled'.op = "Push"
            /\ scheduled'.state.tag \in {"Win", "Loss"}
            /\ scheduled'.state.options = Top.options]_vars
    /\ [][(Top'.tag \in {"Win", "Loss"} /\ stack' # stack) =>
            /\ Top'.options = Top.options
            /\ stack' = Append(stack, Top')]_vars
    /\ [](Top.tag \in {"Win", "Loss"} =>
            /\ Len(stack) = 2
            /\ stack[1].tag = "Main"
            /\ stack[1].options = Top.options)

C17_Witness ==
    /\ Top.tag = "Win"
    /\ Top.options.language = Russian
    /\ Top.options.settings.max_attempts = 2
    /\ stack[1].options = Top.options
    /\ Len(guesses) >= 2

\* menu_ui_system sees Start game clicked
StartGameClick ==
    /\ Top.tag = "Menu"
    /\ scheduled.op = "None"
    /\ clicked # "Start game"
    /\ clicked' = "Start game"

(* C18. As claimed: a Start game click clears the history and schedules a  *)
(* replace of the whole stack by a Main state whose word length, max       *)
(* attempts and language are those the menu shows and whose word is a word *)
(* of that length of the language's word list; the driver then makes that  *)
(* state the whole stack.                                                  *)
C18_AsClaimed ==
    [][/\ StartGameClick =>
            /\ HistoryEmpty'
            /\ ~panicked'
            /\ scheduled'.op = "Replace"
            /\ scheduled'.state.tag = "Main"
            /\ scheduled'.state.options.settings =
                 [ word_length |-> menu_settings'.word_length,
                   max_attempts |-> menu_settings'.max_attempts ]
            /\ scheduled'.state.options.language = menu_settings'.selected_language
            /\ scheduled'.state.options.word \in WordList(menu_settings'.selected_language)
            /\ Len(scheduled'.state.options.word) = menu_settings'.word_length
       /\ (Top.tag = "Menu" /\ scheduled.op = "Replace" /\ DriverStep) =>
            stack' = <<scheduled.state>>]_vars

(* C19. As claimed: a Start game click for a language and a length of      *)
(* which the word list has no word leaves the state stack, the scheduled   *)
(* operation, the guess list and the aggregate map as they were, and the   *)
(* program does not abort.                                                 *)
C19_AsClaimed ==
    [][(/\ StartGameClick
        /\ ~ \E w \in WordList(menu_settings'.selected_language) :
               Len(w) = menu_settings'.word_length)
            => /\ ~panicked'
               /\ UNCHANGED <<stack, scheduled, guesses, guessed_char>>]_vars

(* C20. Two GameState values compare equal exactly when their variant tags *)
(* are the same: values of one variant are equal whatever options they     *)
(* carry, values of different variants are unequal also with the same      *)
(* options.                                                                *)
C20_EqualityByVariant ==
    eqResult # "not run" =>
        /\ eqLeft.tag = eqRight.tag => eqResult = "equal"
        /\ eqLeft.tag # eqRight.tag => eqResult = "not equal"

C20_Witness ==
    /\ eqResult = "equal"
    /\ eqLeft.tag = "Main"
    /\ eqRight.tag = "Main"
    /\ eqLeft.options.word # eqRight.options.word
    /\ eqLeft.options.settings # eqRight.options.settings

(* C21. Every guess of the guess list has as many chars as the secret word *)
(* of the round: the word of the state at the bottom of the stack and of   *)
(* the state on top of it.                                                 *)
C21_GuessesHaveWordLength ==
    \A k \in DOMAIN guesses :
        /\ Len(guesses[k]) = Len(stack[1].options.word)
        /\ Len(guesses[k]) = Len(Top.options.word)

C21_Witness ==
    /\ InPlay
    /\ Len(Top.options.word) = 2
    /\ ranProcess
    /\ lastRun.accepted >= 1
    /\ lastRun.wrong_length >= 1
    /\ Len(guesses) >= 2

C23_AcceptedGuessIsAppended ==
    [][(ProcessStep /\ InPlay) =>
        LET kept == AcceptableOf(events, Top.options)
        IN  /\ Len(guesses') = Len(guesses) + Len(kept)
            /\ SubSeq(guesses', 1, Len(guesses)) = guesses
            /\ \A k \in DOMAIN kept :
                  /\ GuessChars(guesses'[Len(guesses) + k]) = kept[k]
                  /\ Verdicts(guesses'[Len(guesses) + k])
                       = RefVerdicts(Top.options.word, kept[k])
            /\ kept # <<>> => current' = <<>>]_vars

C23_Witness ==
    /\ InPlay
    /\ ranProcess
    /\ lastRun.accepted = 1
    /\ Len(guesses) = 3
    /\ guesses[2] # guesses[3]
    /\ current = <<>>

(* C24. The keys of the aggregate map are exactly the chars that occur in  *)
(* the guesses of the guess list.                                          *)
C24_AggregateKeysAreGuessedChars ==
    DOMAIN guessed_char =
        UNION { {guesses[k][i][1] : i \in DOMAIN guesses[k]} : k \in DOMAIN guesses }

C24_Witness ==
    /\ InPlay
    /\ Top.options.language = Russian
    /\ Len(guesses) = 2
    /\ DOMAIN guessed_char = {"h", "e", "a"}

\* the positions of s that hold c
Occurrences(s, c) == {i \in DOMAIN s : s[i] = c}

(* C25. In an evaluated guess of the secret's length, for every char c the *)
(* positions holding c that are Correct or Misplaced number the smaller of *)
(* c's occurrences in the guess and in the secret, the other positions     *)
(* holding c are Absent, and no position is left Unknown.                  *)
C25_MarkedCountIsMinimum ==
    Evaluated =>
        /\ \A c \in EvalChars :
              LET inGuess == Cardinality(Occurrences(evGuess, c))
                  inWord == Cardinality(Occurrences(evWord, c))
                  marked == {i \in Occurrences(evGuess, c) :
                                evResult[i][2] \in {"Correct", "Misplaced"}}
              IN  /\ Cardinality(marked) = IF inGuess <= inWord THEN inGuess ELSE inWord
                  /\ \A i \in Occurrences(evGuess, c) \ marked : evResult[i][2] = "Missing"
        /\ \A i \in DOMAIN evResult : evResult[i][2] # "None"

C25_Witness ==
    /\ Evaluated
    /\ \E i, j \in DOMAIN evResult :
          /\ i < j
          /\ evGuess[i] = evGuess[j]
          /\ evResult[i][2] = "Missing"
          /\ evResult[j][2] = "Correct"
    /\ \E i \in DOMAIN evResult : evResult[i][2] = "Misplaced"

(* C26. As claimed: when process_game_events_system, in Play with nothing  *)
(* scheduled before, records an all-Correct guess, the run does not        *)
(* schedule Loss, whatever further guesses it handles (looked at in rounds *)
(* whose attempts limit is the one the code reads, so that the difference  *)
(* of the two limits decides nothing here).                                *)
C26_AsClaimed ==
    [][(/\ ProcessStep
        /\ InPlay
        /\ scheduled.op = "None"
        /\ Top.options.settings.max_attempts = CurrentSettings.max_attempts
        /\ \E k \in (Len(guesses) + 1)..Len(guesses') : AllCorrect(guesses'[k]))
            => ~(scheduled'.op = "Push" /\ scheduled'.state.tag = "Loss")]_vars

(* C27. As claimed: the game is never in Play, with nothing scheduled,     *)
(* while the history holds an all-Correct guess: a winning guess recorded  *)
(* in the frame of a Settings click is followed by Win, in either order of *)
(* main_ui_system and process_game_events_system.                          *)
C27_AsClaimed ==
    (InPlay /\ scheduled.op = "None" /\ ~panicked)
        => \A k \in DOMAIN guesses : ~AllCorrect(guesses[k])

(* C28. As claimed: in Play the current input holds at most as many chars  *)
(* as the round's secret word.                                             *)
C28_AsClaimed ==
    (InPlay /\ ~panicked) => Len(current) <= Len(Top.options.word)

(* C29. The state stack holds one or two entries, its bottom entry is Load *)
(* or Main (Play), and a Menu, Win or Loss entry is the second entry,      *)
(* directly on a Main entry that carries the same GameOptions.             *)
C29_StackShape ==
    /\ Len(stack) \in 1..2
    /\ stack[1].tag \in {"Load", "Main"}
    /\ \A i \in DOMAIN stack :
          stack[i].tag \in {"Menu", "Win", "Loss"} =>
              /\ i = 2
              /\ stack[1].tag = "Main"
              /\ stack[1].options = stack[i].options

C29_Witness ==
    /\ Len(stack) = 2
    /\ Top.tag \in {"Win", "Loss"}
    /\ Top.options.settings.word_length # DefaultWordLength
    /\ stack[1] = GameState("Main", Top.options)

===========================================================================
